---- MODULE Spec2Model ----
(***************************************************************************)
(* State-machine model of the PageForm component (src/unnamed/part_000):   *)
(* the idle-based autosave (buildPayload / flushSave / queueSave and the   *)
(* effects that call them) together with the mutators of the form fields,  *)
(* the image reference and the question list; and of the outbound mail     *)
(* transport of src/client/src/pages/api/emailService.ts (sendMail,        *)
(* sendMailWithFallback).                                                  *)
(*                                                                         *)
(* Conventions                                                             *)
(*  - Strings the code parses (content, question fields) are sequences of  *)
(*    symbols; a symbol is a separator, a blank, or a run of text.         *)
(*  - null / undefined is the empty sequence, a present value v is <<v>>.  *)
(*  - Sequences are 1-based: the code's index i is i + 1 here.             *)
(*  - `now` is the time in ms since the component was constructed;         *)
(*    Date.now() is MountedAt + now.                                       *)
(*  - One action is one event-loop task: the handler, the re-render it     *)
(*    causes and the effects of that render.  Props (onSave, pageNumber,   *)
(*    initialValues.id) are taken to be stable across renders.             *)
(***************************************************************************)
EXTENDS Integers, Sequences, FiniteSets, TLC

\* ---------------------------------------------------------------- bounds
MaxTime == 10100
MaxTimeAsync == 11100
TickMs == 4000
EarlyFireMs == 20
MaxInFlight == 2
MaxQuestions == 1
MountedAt == 1
MaxBurst == 2
MaxRawLen == 3
MaxOptions == 3
MaxLoadTimers == 1
MaxCalls == 2
MaxTestImgs == 1
MaxSavedQuestions == 2

\* ------------------------------------------------------ program constants
INACTIVITY_MS == 5000
INITIAL_LOAD_MS == 1000
GUARD_MS == 50
PageNumberProp == 1
RESEND_OK_FROM == 200
RESEND_OK_BELOW == 300
SENDGRID_OK == 202
HTTPS_PORT == 443
GMAIL_TLS_PORT == 465
STARTTLS_PORT == 587

NL == "\n"
Null == << >>
Some(x) == << x >>

\* Values a user can put into the fields.
TitleValues == {"A", "AB"}
ContentValues == { <<" ">>, <<"x">> }
UrlValues == {"", "http://u"}

\* Of these, the ones the test /^https?:\/\//i accepts.
HttpUrls == {"http://u"}

\* Cloudinary cloud names a build can be configured with; '' when none of
\* the configuration sources names one.
CloudNames == {"", "demo"}

\* What uploadPageImage resolves with; publicId may be missing.
UploadResults ==
    [url : {"http://u"}, publicId : { << >>, << "pid" >> }]
OptionSymbols == {"a", " ", ",", NL}
OptionTexts == { <<"a">>, <<"a", " ">> }

\* ------------------------------------------------------------ pure helpers
IsSpace(c) == c = " " \/ c = NL

RECURSIVE TrimStart(_)
TrimStart(s) ==
    IF s = << >> THEN << >>
    ELSE IF IsSpace(Head(s)) THEN TrimStart(Tail(s)) ELSE s

RECURSIVE TrimEnd(_)
TrimEnd(s) ==
    IF s = << >> THEN << >>
    ELSE IF IsSpace(s[Len(s)]) THEN TrimEnd(SubSeq(s, 1, Len(s) - 1)) ELSE s

\* String.prototype.trim
Trim(s) == TrimEnd(TrimStart(s))

Includes(s, c) == \E i \in 1..Len(s) : s[i] = c

\* String.prototype.split(sep) for a one-symbol separator: always at least
\* one piece, empty pieces kept.
RECURSIVE SplitAcc(_, _, _)
SplitAcc(s, sep, cur) ==
    IF s = << >> THEN << cur >>
    ELSE IF Head(s) = sep THEN << cur >> \o SplitAcc(Tail(s), sep, << >>)
    ELSE SplitAcc(Tail(s), sep, Append(cur, Head(s)))

Split(s, sep) == SplitAcc(s, sep, << >>)

RECURSIVE Join(_, _)
Join(parts, sep) ==
    IF parts = << >> THEN << >>
    ELSE IF Len(parts) = 1 THEN parts[1]
    ELSE parts[1] \o << sep >> \o Join(Tail(parts), sep)

RECURSIVE MapTrim(_)
MapTrim(parts) ==
    IF parts = << >> THEN << >> ELSE << Trim(Head(parts)) >> \o MapTrim(Tail(parts))

RECURSIVE FilterNonBlank(_)
FilterNonBlank(parts) ==
    IF parts = << >> THEN << >>
    ELSE IF Trim(Head(parts)) # << >>
         THEN << Head(parts) >> \o FilterNonBlank(Tail(parts))
         ELSE FilterNonBlank(Tail(parts))

RECURSIVE FilterNonEmpty(_)
FilterNonEmpty(parts) ==
    IF parts = << >> THEN << >>
    ELSE IF Head(parts) # << >>
         THEN << Head(parts) >> \o FilterNonEmpty(Tail(parts))
         ELSE FilterNonEmpty(Tail(parts))

getOptionsList(optionsString) ==
    IF optionsString = << >> THEN << >>
    ELSE IF Includes(optionsString, NL)
         THEN FilterNonBlank(Split(optionsString, NL))
         ELSE FilterNonEmpty(MapTrim(Split(optionsString, ",")))

DefaultOptions == << "Option 1", NL, "Option 2", NL, "Option 3" >>

NewQuestion ==
    [questionText |-> << >>, answerType |-> "text",
     correctAnswer |-> << >>, options |-> << >>]

\* updateQuestion that resets the options whenever the answer type is set to
\* multiple choice.
updateQuestionList_alwaysDefault(qs, index, field, value) ==
    LET updated == [qs EXCEPT ![index] = [@ EXCEPT ![field] = value]]
    IN  IF field = "answerType" /\ value = "multiple_choice"
        THEN [updated EXCEPT ![index].options = DefaultOptions]
        ELSE updated

\* The new list updateQuestion(index, field, value) hands to setQuestions.
updateQuestionList(qs, index, field, value) ==
    LET updated == [qs EXCEPT ![index] = [@ EXCEPT ![field] = value]]
    IN  IF field = "answerType" /\ value = "multiple_choice"
           /\ Len(getOptionsList(updated[index].options)) = 0
        THEN [updated EXCEPT ![index].options = DefaultOptions]
        ELSE updated

RemoveAt(s, i) == SubSeq(s, 1, i - 1) \o SubSeq(s, i + 1, Len(s))

\* `Option ${n}`
OptionName(n) ==
    << << "Option 1", "Option 2", "Option 3", "Option 4", "Option 5",
          "Option 6" >>[n] >>

\* setQuestions(value) called several times by one handler: the state the
\* next render sees is the value of the last call.
LastCall(calls) == calls[Len(calls)]

\* addOption(qi): the list handed to setQuestions.
addOptionList(qs, qi) ==
    LET opts == getOptionsList(qs[qi].options)
        optionsString == Join(Append(opts, OptionName(Len(opts) + 1)), NL)
    IN  updateQuestionList(qs, qi, "options", optionsString)

\* removeOption(qi, oi): the lists handed to setQuestions, in call order.
\* Both updateQuestion calls start from the `questions` of the same render.
removeOptionCalls(qs, qi, oi) ==
    LET opts == getOptionsList(qs[qi].options)
        next == Join(RemoveAt(opts, oi), NL)
    IN  (IF qs[qi].correctAnswer = opts[oi]
         THEN << updateQuestionList(qs, qi, "correctAnswer", << >>) >>
         ELSE << >>)
        \o << updateQuestionList(qs, qi, "options", next) >>

\* updateOptionText(qi, oi, text): the lists handed to setQuestions, in call
\* order.
updateOptionTextCalls(qs, qi, oi, text) ==
    LET opts == getOptionsList(qs[qi].options)
    IN  (IF qs[qi].correctAnswer = opts[oi]
         THEN << updateQuestionList(qs, qi, "correctAnswer", text) >>
         ELSE << >>)
        \o << updateQuestionList(qs, qi, "options",
                                 Join([opts EXCEPT ![oi] = text], NL)) >>


\* ------------------------------------------------------------------ state
VARIABLES
    now,                 \* ms elapsed since construction
    isInitialLoad,       \* useState(true)
    loadTimers,          \* due times of the pending setIsInitialLoad(false) timeouts
    title, content, imageUrl, imagePublicId,   \* react-hook-form values
    questions,           \* useState<Question[]>
    hasQuestions,        \* useState(false), set by the mount effect / mutators
    lastImageChange,     \* useState(0)
    upload,              \* the handleImageUpload call awaiting uploadPageImage, or Null
    cloud,               \* const cloud: the configured Cloudinary cloud name, or ""
    imagePreview,        \* useState<string | null>
    previewSrc,          \* useState<string | null>: the URL shown, as its parts
    previewTriedTransformed,   \* useState(false)
    testImgs,            \* test images of the preview effect still loading
    hasUnsavedChanges,   \* useState(false)
    liveTimers,          \* autosave timeouts the host still holds
    saveTimerRef,        \* useRef: handle of the autosave timeout, or Null
    latestPayloadRef,    \* useRef: cached payload, or Null
    lastEditRef,         \* useRef: Date.now() of the last queued edit
    lastSaved,           \* argument of the onSave call the latest step made, or Null
    lastSavedBy,         \* what made that call: "timer" | "flush" | "none"
    sinkIsAsync,         \* whether onSave completes after it returns
    sinkMayFail,         \* whether onSave may throw or reject
    mailEnv,             \* process.env as emailService.ts read it, or Null
    mail,                \* emailService.ts: transporter and the sendMail call, or Null
    mounted,             \* whether the component is still mounted
    lastOutcome,         \* how that call ended: "ok" | "throws" | "rejects" | "none"
    failed,              \* the latest onSave call failed and no save was queued since
    inFlight,            \* onSave calls whose completion is still outstanding
    notifySnap,          \* payload built by the last qualifying queueSave, or Null
    notifyAt,            \* `now` of the last qualifying queueSave
    burst,               \* "none" | "pending" | "committed"
    burstLen,            \* qualifying queueSave calls of the current or last burst
    burstStart,          \* `now` of the first of them
    timerCommits,        \* timer-driven onSave calls since the burst started
    twin                 \* controller of a second run fed the same calls, or Null

formVars == << title, content, imageUrl, imagePublicId >>
listVars == << questions, hasQuestions >>
ctlVars == << hasUnsavedChanges, liveTimers, saveTimerRef, latestPayloadRef,
              lastEditRef, lastSaved, lastSavedBy, lastOutcome, failed,
              inFlight, notifySnap, notifyAt, burst, burstLen, burstStart,
              timerCommits >>
previewVars == << imagePreview, previewSrc, previewTriedTransformed, testImgs >>
pageVars == << now, isInitialLoad, loadTimers, formVars, listVars,
              lastImageChange, upload, cloud, previewVars, ctlVars,
              sinkIsAsync, sinkMayFail, mounted, twin >>
mailVars == << mailEnv, mail >>
vars == << pageVars, mailVars >>

DateNow == MountedAt + now

\* form.getValues()
FormValues ==
    [title |-> title, content |-> content,
     imageUrl |-> imageUrl, imagePublicId |-> imagePublicId]

\* ---------------------------------------------------------- image preview
\* clUrl(publicId): '' without a public id or without a cloud name, else the
\* delivery URL, kept as its parts.
clUrl(publicId) ==
    IF publicId = "" \/ cloud = "" THEN << >>
    ELSE << "https://res.cloudinary.com/", cloud,
            "/image/upload/c_fill,w=800,h=450,q_auto,f_auto/", publicId >>

\* transformed and fallbackRaw of a render with form values v and the given
\* imagePreview.
transformed(v) ==
    IF v.imagePublicId # "" THEN clUrl(v.imagePublicId) ELSE << >>

fallbackRaw(preview, v) ==
    IF preview # Null THEN preview[1]
    ELSE IF v.imageUrl # "" /\ v.imageUrl \in HttpUrls THEN v.imageUrl
    ELSE ""

\* fallbackRaw || null, as a value of previewSrc.
fallbackOrNull(f) == IF f = "" THEN Null ELSE Some(<< f >>)

\* The preview state, gathered so that a handler and the effect of the
\* render it causes can be composed within one step.
Preview ==
    [imagePreview |-> imagePreview, previewSrc |-> previewSrc,
     previewTriedTransformed |-> previewTriedTransformed,
     testImgs |-> testImgs]

InstallPreview(p) ==
    /\ imagePreview' = p.imagePreview
    /\ previewSrc' = p.previewSrc
    /\ previewTriedTransformed' = p.previewTriedTransformed
    /\ testImgs' = p.testImgs

\* useEffect(..., [transformed, fallbackRaw]) of the render that follows a
\* handler: p is the preview state the handler left, v the form values, and
\* the previous render is the one of the current state.
previewEffect(p, v) ==
    LET t == transformed(v)
        f == fallbackRaw(p.imagePreview, v)
    IN  IF t = transformed(FormValues) /\ f = fallbackRaw(imagePreview, FormValues)
        THEN p
        ELSE IF t # << >> /\ ~p.previewTriedTransformed
        THEN [p EXCEPT !.previewTriedTransformed = TRUE,
                       !.testImgs = Append(@, [transformed |-> t,
                                               fallbackRaw |-> f])]
        ELSE IF t = << >>
        THEN [p EXCEPT !.previewSrc = fallbackOrNull(f)]
        ELSE IF p.previewSrc = Null
        THEN [p EXCEPT !.previewSrc = fallbackOrNull(f)]
        ELSE p

\* The refs, the flag, the host's timeouts and the record of onSave calls,
\* gathered so that the callbacks can be composed within one step.  A step
\* starts with no onSave call made; sinkOutcome is what the sink does if the
\* step calls it.
Ctl ==
    [hasUnsavedChanges |-> hasUnsavedChanges, liveTimers |-> liveTimers,
     saveTimerRef |-> saveTimerRef, latestPayloadRef |-> latestPayloadRef,
     lastEditRef |-> lastEditRef,
     lastSaved |-> Null,
     lastSavedBy |-> "none", lastOutcome |-> "none", sinkOutcome |-> "ok",
     failed |-> failed, inFlight |-> inFlight,
     notifySnap |-> notifySnap, notifyAt |-> notifyAt, burst |-> burst,
     burstLen |-> burstLen, burstStart |-> burstStart,
     timerCommits |-> timerCommits]

Install(c) ==
    /\ hasUnsavedChanges' = c.hasUnsavedChanges
    /\ liveTimers' = c.liveTimers
    /\ saveTimerRef' = c.saveTimerRef
    /\ latestPayloadRef' = c.latestPayloadRef
    /\ lastEditRef' = c.lastEditRef
    /\ lastSaved' = c.lastSaved
    /\ lastSavedBy' = c.lastSavedBy
    /\ lastOutcome' = c.lastOutcome
    /\ failed' = c.failed
    /\ inFlight' = c.inFlight
    /\ notifySnap' = c.notifySnap
    /\ notifyAt' = c.notifyAt
    /\ burst' = c.burst
    /\ burstLen' = c.burstLen
    /\ burstStart' = c.burstStart
    /\ timerCommits' = c.timerCommits

\* ------------------------------------------------------------- callbacks
\* buildPayload with the blank-content test reduced to the empty string.
buildPayload_noTrim(showNotification, v, qs) ==
    IF v.content = << >> THEN Null
    ELSE Some([pageNumber |-> PageNumberProp,
               title |-> v.title,
               content |-> v.content,
               imageUrl |-> v.imageUrl,
               imagePublicId |-> v.imagePublicId,
               questions |-> IF Len(qs) > 0 THEN Some(qs) ELSE Null,
               showNotification |-> showNotification])

\* buildPayload(showNotification): null when the content is blank.
buildPayload(showNotification, v, qs) ==
    IF v.content = << >> \/ Trim(v.content) = << >> THEN Null
    ELSE Some([pageNumber |-> PageNumberProp,
               title |-> v.title,
               content |-> v.content,
               imageUrl |-> v.imageUrl,
               imagePublicId |-> v.imagePublicId,
               questions |-> IF Len(qs) > 0 THEN Some(qs) ELSE Null,
               showNotification |-> showNotification])

\* clearTimeout that leaves the timeout with the host.
clearSaveTimer_noop(c) == c

\* window.clearTimeout(saveTimerRef.current) when the ref holds a handle.
clearSaveTimer(c) ==
    IF c.saveTimerRef # Null
    THEN [c EXCEPT !.liveTimers = c.liveTimers \ {c.saveTimerRef[1]}]
    ELSE c

\* onSave wrapped so that a failed call arms a timeout that tries again.
onSave_retry(c, payload, by) ==
    LET tm == [due |-> now + INACTIVITY_MS, kind |-> "flush"]
    IN  [c EXCEPT !.lastSaved = Some(payload),
                  !.lastSavedBy = by,
                  !.lastOutcome = c.sinkOutcome,
                  !.failed = (c.sinkOutcome # "ok"),
                  !.inFlight = IF sinkIsAsync /\ c.sinkOutcome # "throws"
                               THEN c.inFlight + 1 ELSE c.inFlight,
                  !.burst = "committed",
                  !.timerCommits = IF by = "timer" THEN c.timerCommits + 1
                                   ELSE c.timerCommits,
                  !.liveTimers = IF c.sinkOutcome # "ok" THEN @ \cup {tm} ELSE @,
                  !.saveTimerRef = IF c.sinkOutcome # "ok" THEN Some(tm) ELSE @]

\* onSave(payload): the sink call and its bookkeeping.  A sink that throws
\* has no completion outstanding.
onSave(c, payload, by) ==
    [c EXCEPT !.lastSaved = Some(payload),
              !.lastSavedBy = by,
              !.lastOutcome = c.sinkOutcome,
              !.failed = (c.sinkOutcome # "ok"),
              !.inFlight = IF sinkIsAsync /\ c.sinkOutcome # "throws"
                           THEN c.inFlight + 1 ELSE c.inFlight,
              !.burst = "committed",
              !.timerCommits = IF by = "timer" THEN c.timerCommits + 1
                               ELSE c.timerCommits]

\* setHasUnsavedChanges(false) after onSave(payload): not reached when the
\* sink throws.
afterOnSave(c) ==
    IF c.lastOutcome = "throws" THEN c ELSE [c EXCEPT !.hasUnsavedChanges = FALSE]

\* flushSave that prefers a freshly built payload to the cached one.
flushSave_freshFirst(c, initialLoad, v, qs, by) ==
    IF initialLoad THEN c
    ELSE LET c1 == [clearSaveTimer(c) EXCEPT !.saveTimerRef = Null]
             payload == IF buildPayload(TRUE, v, qs) # Null
                        THEN buildPayload(TRUE, v, qs)
                        ELSE c.latestPayloadRef
         IN  IF payload # Null
             THEN afterOnSave(onSave(c1, payload[1], by))
             ELSE c1

\* flushSave() as closed over a render with the given isInitialLoad,
\* form values and question list.
flushSave(c, initialLoad, v, qs, by) ==
    IF initialLoad THEN c
    ELSE LET c1 == [clearSaveTimer(c) EXCEPT !.saveTimerRef = Null]
             payload == IF c.latestPayloadRef # Null THEN c.latestPayloadRef
                        ELSE buildPayload(TRUE, v, qs)
         IN  IF payload # Null
             THEN afterOnSave(onSave(c1, payload[1], by))
             ELSE c1

\* A qualifying queueSave continues the burst of the one before it when it
\* comes less than INACTIVITY_MS after it; otherwise it starts a burst.
SameBurst(c) == c.notifySnap # Null /\ now - c.notifyAt < INACTIVITY_MS

\* remaining time without the guard band.
remaining_noGuard(idleFor) == INACTIVITY_MS - idleFor

\* Delay of the timeout the expiry re-check arms.
remaining(idleFor) == INACTIVITY_MS - idleFor + GUARD_MS

\* queueSave that saves structural changes after the guard band only.
queueSave_urgent(c, showNotification, initialLoad, v, qs) ==
    IF initialLoad THEN c
    ELSE LET payload == buildPayload(showNotification, v, qs)
             tm == [due |-> now + (IF showNotification THEN GUARD_MS
                                   ELSE INACTIVITY_MS),
                    kind |-> "check"]
         IN  IF payload = Null THEN c
             ELSE [clearSaveTimer(c) EXCEPT
                      !.latestPayloadRef = payload,
                      !.lastEditRef = DateNow,
                      !.hasUnsavedChanges = TRUE,
                      !.liveTimers = @ \cup {tm},
                      !.saveTimerRef = Some(tm),
                      !.notifySnap = payload,
                      !.notifyAt = now,
                      !.burst = "pending",
                      !.burstLen = IF SameBurst(c)
                                   THEN (IF @ < MaxBurst THEN @ + 1 ELSE @)
                                   ELSE 1,
                      !.burstStart = IF SameBurst(c) THEN @ ELSE now,
                      !.timerCommits = IF SameBurst(c) THEN @ ELSE 0,
                      !.failed = FALSE]

\* queueSave that keeps the payload cached first instead of replacing it.
queueSave_keepFirst(c, showNotification, initialLoad, v, qs) ==
    IF initialLoad THEN c
    ELSE LET payload == buildPayload(showNotification, v, qs)
             tm == [due |-> now + INACTIVITY_MS, kind |-> "check"]
         IN  IF payload = Null THEN c
             ELSE [clearSaveTimer(c) EXCEPT
                      !.latestPayloadRef = IF @ # Null THEN @ ELSE payload,
                      !.lastEditRef = DateNow,
                      !.hasUnsavedChanges = TRUE,
                      !.liveTimers = @ \cup {tm},
                      !.saveTimerRef = Some(tm),
                      !.notifySnap = payload,
                      !.notifyAt = now,
                      !.burst = "pending",
                      !.burstLen = IF SameBurst(c)
                                   THEN (IF @ < MaxBurst THEN @ + 1 ELSE @)
                                   ELSE 1,
                      !.burstStart = IF SameBurst(c) THEN @ ELSE now,
                      !.timerCommits = IF SameBurst(c) THEN @ ELSE 0,
                      !.failed = FALSE]

\* queueSave(showNotification) as closed over a render with the given
\* isInitialLoad, form values and question list.
queueSave(c, showNotification, initialLoad, v, qs) ==
    IF initialLoad THEN c
    ELSE LET payload == buildPayload(showNotification, v, qs)
             tm == [due |-> now + INACTIVITY_MS, kind |-> "check"]
         IN  IF payload = Null THEN c
             ELSE [clearSaveTimer(c) EXCEPT
                      !.latestPayloadRef = payload,
                      !.lastEditRef = DateNow,
                      !.hasUnsavedChanges = TRUE,
                      !.liveTimers = @ \cup {tm},
                      !.saveTimerRef = Some(tm),
                      !.notifySnap = payload,
                      !.notifyAt = now,
                      !.burst = "pending",
                      !.burstLen = IF SameBurst(c)
                                   THEN (IF @ < MaxBurst THEN @ + 1 ELSE @)
                                   ELSE 1,
                      !.burstStart = IF SameBurst(c) THEN @ ELSE now,
                      !.timerCommits = IF SameBurst(c) THEN @ ELSE 0,
                      !.failed = FALSE]

\* Timeout callback that commits at every expiry, without the idle re-check.
timerCallback_noRecheck(c, tm, v, qs) ==
    flushSave(c, FALSE, v, qs, "timer")

\* Callback of the timeout queueSave arms (kind "check") and of the one the
\* re-check arms (kind "flush").  Both close over a render in which
\* isInitialLoad is false, since queueSave returns before arming otherwise.
timerCallback(c, tm, v, qs) ==
    IF tm.kind = "check"
    THEN LET idleFor == DateNow - c.lastEditRef
         IN  IF idleFor >= INACTIVITY_MS
             THEN flushSave(c, FALSE, v, qs, "timer")
             ELSE LET tn == [due |-> now + remaining(idleFor), kind |-> "flush"]
                  IN  [c EXCEPT !.liveTimers = @ \cup {tn},
                                !.saveTimerRef = Some(tn)]
    ELSE flushSave(c, FALSE, v, qs, "timer")

\* The two effects that re-queue a save, run in declaration order after a
\* render in which their dependencies changed.
questionsEffect(c, initialLoad, v, qs) ==
    IF initialLoad THEN c ELSE queueSave(c, TRUE, initialLoad, v, qs)

imageEffect(c, initialLoad, lastImg, v, qs) ==
    IF initialLoad THEN c
    ELSE IF lastImg # 0 THEN queueSave(c, TRUE, initialLoad, v, qs) ELSE c


\* ============================================================ email service
\* src/client/src/pages/api/emailService.ts.  An environment variable that is
\* not set reads as "".  An error message is the sequence of its parts.
GmailHost == "smtp.gmail.com"
RestrictedText == "You can only send testing emails"
TimeoutText == "Connection timeout"

Truthy(v) == v # ""

\* process.env at the time the module is loaded.
MailEnvs ==
    [RESEND_API_KEY : {"", "re_key"},
     SENDGRID_API_KEY : {"", "SG.key"},
     EMAIL_PROVIDER : {"", "resend", "sendgrid", "smtp"},
     SMTP_HOST : {"", GmailHost, "smtp.example.com"},
     PRIMARY_PORT : {GMAIL_TLS_PORT, STARTTLS_PORT},
     SMTP_SECURE : {"", "true"},
     SMTP_USER : {"", "user"},
     SMTP_PASS : {"pass"}]

PRIMARY_SECURE(env) ==
    (IF Truthy(env.SMTP_SECURE) THEN env.SMTP_SECURE ELSE "false") = "true"

makeTransport(port, secure) == [port |-> port, secure |-> secure]

\* The module-level transporter after the module is loaded.
initialTransporter(env) ==
    IF Truthy(env.SMTP_HOST) /\ Truthy(env.SMTP_USER) /\ Truthy(env.SMTP_PASS)
    THEN Some(makeTransport(env.PRIMARY_PORT, PRIMARY_SECURE(env)))
    ELSE Null

\* What transporter.sendMail rejects with.
SmtpErrors ==
    [code : {"ETIMEDOUT", "ESOCKET", "ECONNECTION", "ECONNREFUSED", "EAUTH"},
     message : { << "Invalid login" >>, << TimeoutText >> }]

Unavailable ==
    [code |-> "", message |-> << "SMTP transporter unavailable" >>]

DomainUnverified ==
    [code |-> "EMAIL_DOMAIN_UNVERIFIED",
     message |-> << "EMAIL_DOMAIN_UNVERIFIED" >>]

\* What httpsJson settles with: a response, or a rejection (network error,
\* request timeout).
ApiReplies ==
    [rejected : {FALSE}, status : {200, 202, 403}, body : {"", RestrictedText}]
    \cup { [rejected |-> TRUE, status |-> 0, body |-> ""] }

\* /timeout/i.test(message)
isTimeoutMessage(message) == Includes(message, TimeoutText)

isTimeout(err) ==
    err.code = "ETIMEDOUT" \/ err.code = "ESOCKET" \/ isTimeoutMessage(err.message)

isConn(err) == err.code = "ECONNECTION" \/ err.code = "ECONNREFUSED"

\* The message of the error sendViaResend / sendViaSendGrid ends with, or
\* Null when the send succeeded.
apiError(provider, r) ==
    IF r.rejected THEN Some(<< "HTTPS request timeout" >>)
    ELSE IF provider = "resend"
         THEN (IF r.status >= RESEND_OK_FROM /\ r.status < RESEND_OK_BELOW
               THEN Null
               ELSE Some(<< "Resend API failed", r.body >>))
         ELSE (IF r.status = SENDGRID_OK
               THEN Null
               ELSE Some(<< "SendGrid API failed", r.body >>))

\* The branch sendMail takes inside its try block.
selectProvider(env) ==
    IF env.EMAIL_PROVIDER = "resend"
       \/ (Truthy(env.RESEND_API_KEY) /\ ~Truthy(env.EMAIL_PROVIDER)
           /\ ~Truthy(env.SENDGRID_API_KEY))
    THEN "resend"
    ELSE IF env.EMAIL_PROVIDER = "sendgrid"
            \/ (Truthy(env.SENDGRID_API_KEY) /\ ~Truthy(env.EMAIL_PROVIDER))
         THEN "sendgrid"
         ELSE "smtp"

\* The module before any sendMail call.  attempts, smtpCalls, apiReply and
\* smtpReplies record what the current call has done so far.
MailLoaded(env) ==
    [pc |-> "idle", transporter |-> initialTransporter(env), calls |-> 0,
     attempts |-> << >>, smtpCalls |-> 0, apiReply |-> Null,
     smtpReplies |-> << >>, outcome |-> "none", error |-> Null]

smtpAttempt(m) ==
    Append(m.attempts, [via |-> "smtp", port |-> m.transporter[1].port,
                        secure |-> m.transporter[1].secure])

\* The call ends with the error err thrown to the caller.
throwError(m, err) ==
    [m EXCEPT !.pc = "idle", !.outcome = "error", !.error = Some(err)]

\* The call ends with a result.
returnSent(m) == [m EXCEPT !.pc = "idle", !.outcome = "sent"]

\* sendMailWithFallback's catch block that retries whatever the host is.
smtpCatch_anyHost(env, m, err) ==
    IF m.transporter # Null /\ (isTimeout(err) \/ isConn(err))
    THEN LET m2 == [m EXCEPT !.transporter =
                                Some(makeTransport(STARTTLS_PORT, FALSE))]
         IN  [m2 EXCEPT !.pc = "smtpFallback", !.attempts = smtpAttempt(m2)]
    ELSE throwError(m, err)

\* sendMailWithFallback's catch block, up to its await.
smtpCatch(env, m, err) ==
    IF m.transporter # Null /\ (isTimeout(err) \/ isConn(err))
       /\ env.SMTP_HOST = GmailHost /\ env.PRIMARY_PORT = GMAIL_TLS_PORT
    THEN LET m2 == [m EXCEPT !.transporter =
                                Some(makeTransport(STARTTLS_PORT, FALSE))]
         IN  [m2 EXCEPT !.pc = "smtpFallback", !.attempts = smtpAttempt(m2)]
    ELSE throwError(m, err)

\* sendMailWithFallback, up to its first await.
sendMailWithFallback(env, m) ==
    LET m1 == [m EXCEPT !.smtpCalls = @ + 1]
    IN  IF m1.transporter = Null THEN smtpCatch(env, m1, Unavailable)
        ELSE [m1 EXCEPT !.pc = "smtp", !.attempts = smtpAttempt(m1)]

\* sendMail's catch block that always goes on to SMTP.
apiCatch_alwaysSmtp(env, m, msg) ==
    sendMailWithFallback(env, m)

\* sendMail's catch block and what follows it; msg is the message of the
\* error of the API provider.
apiCatch(env, m, msg) ==
    IF Includes(msg, RestrictedText) THEN throwError(m, DomainUnverified)
    ELSE sendMailWithFallback(env, m)

\* sendMail is called: up to its first await.
sendMail ==
    /\ mail # Null
    /\ mail.pc = "idle"
    /\ mail.calls < MaxCalls
    /\ LET m == [mail EXCEPT !.calls = @ + 1, !.attempts = << >>,
                             !.smtpCalls = 0, !.apiReply = Null,
                             !.smtpReplies = << >>, !.outcome = "none",
                             !.error = Null]
           p == selectProvider(mailEnv)
       IN  mail' = IF p = "smtp" THEN sendMailWithFallback(mailEnv, m)
                   ELSE [m EXCEPT !.pc = p,
                                  !.attempts = Append(@, [via |-> p,
                                                          port |-> HTTPS_PORT,
                                                          secure |-> TRUE])]
    /\ UNCHANGED << mailEnv, pageVars >>

\* The request of sendViaResend / sendViaSendGrid settles.
apiReply ==
    \E r \in ApiReplies :
       /\ mail # Null
       /\ mail.pc \in {"resend", "sendgrid"}
       /\ LET m == [mail EXCEPT !.apiReply = Some(r)]
              e == apiError(mail.pc, r)
          IN  mail' = IF e = Null THEN returnSent(m)
                      ELSE apiCatch(mailEnv, m, e[1])
       /\ UNCHANGED << mailEnv, pageVars >>

\* The first transporter.sendMail settles.
smtpReply ==
    \E o \in {Null} \cup {Some(e) : e \in SmtpErrors} :
       /\ mail # Null
       /\ mail.pc = "smtp"
       /\ LET m == [mail EXCEPT !.smtpReplies = Append(@, o)]
          IN  mail' = IF o = Null THEN returnSent(m)
                      ELSE smtpCatch(mailEnv, m, o[1])
       /\ UNCHANGED << mailEnv, pageVars >>

\* The transporter.sendMail of the STARTTLS fallback settles.
smtpFallbackReply ==
    \E o \in {Null} \cup {Some(e) : e \in SmtpErrors} :
       /\ mail # Null
       /\ mail.pc = "smtpFallback"
       /\ LET m == [mail EXCEPT !.smtpReplies = Append(@, o)]
          IN  mail' = IF o = Null THEN returnSent(m) ELSE throwError(m, o[1])
       /\ UNCHANGED << mailEnv, pageVars >>


\* ------------------------------------------------------------------- Init
\* The state after the first render and its mount effects, the question
\* list being one of initialQuestions.
InitPage(initialQuestions) ==
    /\ now = 0
    /\ isInitialLoad = TRUE
    /\ loadTimers = {INITIAL_LOAD_MS}
    /\ title = ""
    /\ content \in { << >>, <<"x">> }
    /\ imageUrl = ""
    /\ imagePublicId = ""
    /\ questions \in initialQuestions
    /\ hasQuestions = (Len(questions) > 0)
    /\ lastImageChange = 0
    /\ upload = Null
    /\ imagePreview = Null
    /\ previewSrc = Null
    /\ previewTriedTransformed = FALSE
    /\ testImgs = << >>
    /\ hasUnsavedChanges = FALSE
    /\ liveTimers = {}
    /\ saveTimerRef = Null
    /\ latestPayloadRef = Null
    /\ lastEditRef = MountedAt
    /\ lastSaved = Null
    /\ lastSavedBy = "none"
    /\ lastOutcome = "none"
    /\ failed = FALSE
    /\ mounted = TRUE
    /\ inFlight = 0
    /\ notifySnap = Null
    /\ notifyAt = 0
    /\ burst = "none"
    /\ burstLen = 0
    /\ burstStart = 0
    /\ timerCommits = 0

\* The page runs in a browser, where emailService.ts is not loaded, from a
\* build in which no Cloudinary cloud name is configured (the default).
InitHydrated(initialQuestions) ==
    /\ InitPage(initialQuestions)
    /\ cloud = ""
    /\ twin = Null
    /\ mailEnv = Null
    /\ mail = Null

\* The form may be hydrated from saved values (content, questions) or start
\* empty.
InitForm == InitHydrated({ << >>, << NewQuestion >> })

\* Option strings of saved questions.
RECURSIVE SeqsUpTo(_, _)
SeqsUpTo(S, n) ==
    IF n = 0 THEN { << >> }
    ELSE LET shorter == SeqsUpTo(S, n - 1)
         IN  shorter \cup { Append(t, x) : t \in shorter, x \in S }

RawOptions == SeqsUpTo(OptionSymbols, MaxRawLen)

\* A saved page with one question.
SavedQuestions ==
    { << [questionText |-> << >>, answerType |-> t,
          correctAnswer |-> a, options |-> raw] >> :
         t \in {"text", "multiple_choice"}, a \in { << >>, <<"a">> },
         raw \in RawOptions }

\* ------------------------------------------------------------------- time
AllDues == {tm.due : tm \in liveTimers} \cup loadTimers

AdvanceTargets ==
    {now + TickMs} \cup AllDues \cup {tm.due - EarlyFireMs : tm \in liveTimers}

\* How far a run is followed: two idle windows after the initial load where
\* the sink is asynchronous, so that two timer-driven commits fit in.
Horizon == IF sinkIsAsync THEN MaxTimeAsync ELSE MaxTime

\* Time passes.  A timeout that is due runs before time passes it.
Advance ==
    /\ \E t \in AdvanceTargets :
          /\ t > now
          /\ t <= Horizon
          /\ \A due \in AllDues : t <= due
          /\ now' = t
    /\ Install(Ctl)
    /\ UNCHANGED << mailVars, twin, cloud, previewVars, upload, sinkIsAsync, sinkMayFail, mounted, isInitialLoad, loadTimers, formVars, listVars,
                    lastImageChange >>

\* setTimeout(() => setIsInitialLoad(false), 1000) expires; the render that
\* follows re-runs the questions effect and the image effect.  After the
\* unmount the state setter does nothing and nothing renders.
LoadTimerFire ==
    \E due \in loadTimers :
       /\ now >= due
       /\ loadTimers' = loadTimers \ {due}
       /\ isInitialLoad' = IF mounted THEN FALSE ELSE isInitialLoad
       /\ IF mounted /\ isInitialLoad
          THEN Install(imageEffect(
                          questionsEffect(Ctl, FALSE, FormValues, questions),
                          FALSE, lastImageChange, FormValues, questions))
          ELSE Install(Ctl)
       /\ UNCHANGED << mailVars, twin, cloud, previewVars, upload, sinkIsAsync, sinkMayFail, mounted, now, formVars, listVars, lastImageChange >>

\* What the sink may do when it is called.
SinkOutcomes == IF sinkMayFail THEN {"ok", "throws", "rejects"} ELSE {"ok"}

\* State setters of an unmounted component do nothing.
dropSetState(c) ==
    IF mounted THEN c ELSE [c EXCEPT !.hasUnsavedChanges = hasUnsavedChanges]

\* An autosave timeout expires.  The host may run it up to EarlyFireMs
\* before its due time as Date.now() reads it.  The host keeps the timeout
\* whether or not the component is still mounted.
TimerFire ==
    \E tm \in liveTimers, o \in SinkOutcomes :
       /\ now + EarlyFireMs >= tm.due
       /\ inFlight < MaxInFlight
       /\ Install(dropSetState(timerCallback(
                     [Ctl EXCEPT !.liveTimers = liveTimers \ {tm},
                                 !.sinkOutcome = o],
                     tm, FormValues, questions)))
       /\ UNCHANGED << mailVars, twin, cloud, previewVars, upload, sinkIsAsync, sinkMayFail, mounted, now, isInitialLoad, loadTimers, formVars, listVars,
                       lastImageChange >>

\* ----------------------------------------------------------- form fields
\* The user edits the title: field.onChange -> watch 'change' ->
\* queueSave(false).
SetTitle ==
    \E v \in TitleValues :
       /\ mounted
       /\ v # title
       /\ title' = v
       /\ Install(queueSave(Ctl, FALSE, isInitialLoad,
                            [FormValues EXCEPT !.title = v], questions))
       /\ UNCHANGED << mailVars, twin, cloud, previewVars, upload, sinkIsAsync, sinkMayFail, mounted, now, isInitialLoad, loadTimers, content, imageUrl,
                       imagePublicId, listVars, lastImageChange >>

\* The user edits the content: field.onChange -> watch 'change' ->
\* queueSave(false).
SetContent ==
    \E v \in ContentValues :
       /\ mounted
       /\ v # content
       /\ content' = v
       /\ Install(queueSave(Ctl, FALSE, isInitialLoad,
                            [FormValues EXCEPT !.content = v], questions))
       /\ UNCHANGED << mailVars, twin, cloud, previewVars, upload, sinkIsAsync, sinkMayFail, mounted, now, isInitialLoad, loadTimers, title, imageUrl,
                       imagePublicId, listVars, lastImageChange >>

\* onChange of the image URL input: the watch subscription queues a save
\* before imagePublicId is reset; the image effect queues another one when
\* lastImageChange took a new value.  imagePreview follows the input, and
\* the preview effect runs when transformed or fallbackRaw changed.
SetImageUrl ==
    \E v \in UrlValues :
       /\ mounted
       /\ upload = Null
       /\ v # imageUrl
       /\ LET v1 == [FormValues EXCEPT !.imageUrl = v]
              v2 == IF v # "" THEN [v1 EXCEPT !.imagePublicId = ""] ELSE v1
              c1 == queueSave(Ctl, FALSE, isInitialLoad, v1, questions)
              c2 == [c1 EXCEPT !.hasUnsavedChanges = TRUE]
              c3 == IF DateNow # lastImageChange
                    THEN imageEffect(c2, isInitialLoad, DateNow, v2, questions)
                    ELSE c2
              p1 == [Preview EXCEPT
                       !.imagePreview = IF v = "" THEN Null ELSE Some(v)]
          IN  /\ imageUrl' = v2.imageUrl
              /\ imagePublicId' = v2.imagePublicId
              /\ Install(c3)
              /\ InstallPreview(previewEffect(p1, v2))
       /\ lastImageChange' = DateNow
       /\ UNCHANGED << mailVars, twin, cloud, upload, sinkIsAsync, sinkMayFail, mounted, now, isInitialLoad, loadTimers, title, content, listVars >>

\* clearImage(), the onClick of the button drawn over the preview (rendered
\* while previewSrc is set, disabled while an upload is running): resets
\* both image fields and the preview and calls queueSave(true); the image
\* effect repeats the call when lastImageChange took a new value.
clearImage ==
    /\ mounted
    /\ upload = Null
    /\ previewSrc # Null
    /\ LET v2 == [FormValues EXCEPT !.imageUrl = "", !.imagePublicId = ""]
           c1 == [Ctl EXCEPT !.hasUnsavedChanges = TRUE]
           c2 == queueSave(c1, TRUE, isInitialLoad, v2, questions)
           c3 == IF DateNow # lastImageChange
                 THEN imageEffect(c2, isInitialLoad, DateNow, v2, questions)
                 ELSE c2
           p1 == [Preview EXCEPT !.imagePreview = Null, !.previewSrc = Null]
       IN  /\ Install(c3)
           /\ InstallPreview(previewEffect(p1, v2))
    /\ imageUrl' = ""
    /\ imagePublicId' = ""
    /\ lastImageChange' = DateNow
    /\ UNCHANGED << mailVars, twin, cloud, upload, sinkIsAsync, sinkMayFail, mounted, now, isInitialLoad, loadTimers, title, content, listVars >>

\* handleImageUpload up to its await: a file is chosen in the drop zone,
\* which is rendered while previewSrc is null and whose button is disabled
\* while an upload is running.  The call keeps the queueSave of the render
\* in which the file was chosen, that is, that render's isInitialLoad and
\* question list.
handleImageUpload ==
    /\ mounted
    /\ upload = Null
    /\ previewSrc = Null
    /\ Len(testImgs) < MaxTestImgs
    /\ upload' = Some([initialLoad |-> isInitialLoad, questions |-> questions])
    /\ Install(Ctl)
    /\ UNCHANGED << mailVars, twin, cloud, previewVars, sinkIsAsync, sinkMayFail, mounted, now, isInitialLoad,
                    loadTimers, formVars, listVars, lastImageChange >>

\* uploadPageImage resolves: handleImageUpload sets both image fields, shows
\* the uploaded URL as the preview and calls the queueSave it kept; when the
\* component is still mounted the preview effect runs, and the image effect
\* calls the current queueSave if lastImageChange took a new value.
uploadResolved ==
    \E r \in UploadResults :
       /\ upload # Null
       /\ LET v2 == [FormValues EXCEPT
                       !.imageUrl = r.url,
                       !.imagePublicId = IF r.publicId = Null THEN ""
                                         ELSE r.publicId[1]]
              c1 == [Ctl EXCEPT !.hasUnsavedChanges = TRUE]
              c2 == queueSave(c1, TRUE, upload[1].initialLoad, v2,
                              upload[1].questions)
              c3 == IF mounted /\ DateNow # lastImageChange
                    THEN imageEffect(c2, isInitialLoad, DateNow, v2, questions)
                    ELSE c2
              p1 == [Preview EXCEPT !.imagePreview = Some(r.url),
                                    !.previewSrc = Some(<< r.url >>),
                                    !.previewTriedTransformed = FALSE]
          IN  /\ imageUrl' = v2.imageUrl
              /\ imagePublicId' = v2.imagePublicId
              /\ Install(dropSetState(c3))
              /\ InstallPreview(IF mounted THEN previewEffect(p1, v2)
                                ELSE Preview)
       /\ lastImageChange' = IF mounted THEN DateNow ELSE lastImageChange
       /\ upload' = Null
       /\ UNCHANGED << mailVars, twin, cloud, sinkIsAsync, sinkMayFail, mounted, now, isInitialLoad,
                       loadTimers, title, content, listVars >>

\* uploadPageImage rejects: nothing but the uploading indicator changes.
uploadRejected ==
    /\ upload # Null
    /\ upload' = Null
    /\ Install(Ctl)
    /\ UNCHANGED << mailVars, twin, cloud, previewVars, sinkIsAsync, sinkMayFail, mounted, now, isInitialLoad,
                    loadTimers, formVars, listVars, lastImageChange >>

\* A test image of the preview effect loads: onload shows the transformed
\* URL it was created for.
testImgLoad ==
    \E i \in 1..Len(testImgs) :
       /\ previewSrc' = IF mounted THEN Some(testImgs[i].transformed)
                        ELSE previewSrc
       /\ testImgs' = RemoveAt(testImgs, i)
       /\ Install(Ctl)
       /\ UNCHANGED << mailVars, twin, cloud, imagePreview, previewTriedTransformed,
                       upload, sinkIsAsync, sinkMayFail, mounted, now,
                       isInitialLoad, loadTimers, formVars, listVars,
                       lastImageChange >>

\* A test image fails to load: onerror shows the fallback of the render
\* that created it, or nothing.
testImgError ==
    \E i \in 1..Len(testImgs) :
       /\ previewSrc' = IF mounted THEN fallbackOrNull(testImgs[i].fallbackRaw)
                        ELSE previewSrc
       /\ testImgs' = RemoveAt(testImgs, i)
       /\ Install(Ctl)
       /\ UNCHANGED << mailVars, twin, cloud, imagePreview, previewTriedTransformed,
                       upload, sinkIsAsync, sinkMayFail, mounted, now,
                       isInitialLoad, loadTimers, formVars, listVars,
                       lastImageChange >>

\* onError of the preview <img>: a transformed URL that does not load gives
\* way to the fallback, if there is one.
imgError ==
    /\ mounted
    /\ previewSrc # Null
    /\ previewSrc[1] = transformed(FormValues)
    /\ fallbackRaw(imagePreview, FormValues) # ""
    /\ previewSrc' = Some(<< fallbackRaw(imagePreview, FormValues) >>)
    /\ Install(Ctl)
    /\ UNCHANGED << mailVars, twin, cloud, imagePreview, previewTriedTransformed,
                    testImgs, upload, sinkIsAsync, sinkMayFail, mounted, now,
                    isInitialLoad, loadTimers, formVars, listVars,
                    lastImageChange >>

\* ---------------------------------------------------------- question list
\* What every question mutator does after setQuestions(qs): the flag is set
\* directly, and the render re-runs the questions effect and (queueSave being
\* a new function) the image effect.
afterQuestionsChange(qs) ==
    Install(imageEffect(
               questionsEffect([Ctl EXCEPT !.hasUnsavedChanges = TRUE],
                               isInitialLoad, FormValues, qs),
               isInitialLoad, lastImageChange, FormValues, qs))

addQuestion ==
    /\ mounted
    /\ Len(questions) < MaxQuestions
    /\ questions' = Append(questions, NewQuestion)
    /\ hasQuestions' = TRUE
    /\ afterQuestionsChange(questions')
    /\ UNCHANGED << mailVars, twin, cloud, previewVars, upload, sinkIsAsync, sinkMayFail, mounted, now, isInitialLoad, loadTimers, formVars, lastImageChange >>

\* removeQuestion that leaves the hasQuestions flag as it was.
removeQuestion_keepFlag ==
    \E i \in 1..Len(questions) :
       /\ mounted
       /\ questions' = RemoveAt(questions, i)
       /\ hasQuestions' = hasQuestions
       /\ afterQuestionsChange(questions')
       /\ UNCHANGED << mailVars, twin, cloud, previewVars, upload, sinkIsAsync, sinkMayFail, mounted, now, isInitialLoad, loadTimers, formVars, lastImageChange >>

removeQuestion ==
    \E i \in 1..Len(questions) :
       /\ mounted
       /\ questions' = RemoveAt(questions, i)
       /\ hasQuestions' = IF Len(questions') = 0 THEN FALSE ELSE hasQuestions
       /\ afterQuestionsChange(questions')
       /\ UNCHANGED << mailVars, twin, cloud, previewVars, upload, sinkIsAsync, sinkMayFail, mounted, now, isInitialLoad, loadTimers, formVars, lastImageChange >>

\* Edits the page offers on a question in this specification.
QuestionEdits ==
    { << "answerType", "multiple_choice" >> }

\* updateQuestion(index, field, value) called by an input of question i.
updateQuestionAt(i, field, value) ==
    /\ mounted
    /\ questions[i][field] # value
    /\ questions' = updateQuestionList(questions, i, field, value)
    /\ afterQuestionsChange(questions')
    /\ UNCHANGED << mailVars, twin, cloud, previewVars, upload, sinkIsAsync, sinkMayFail, mounted, now, isInitialLoad,
                    loadTimers, formVars, hasQuestions, lastImageChange >>

updateQuestion ==
    \E i \in 1..Len(questions), e \in QuestionEdits :
       updateQuestionAt(i, e[1], e[2])

\* The answer type select.
setAnswerType ==
    \E i \in 1..Len(questions), t \in {"text", "multiple_choice"} :
       updateQuestionAt(i, "answerType", t)

\* The radio button next to option oi of a multiple-choice question.
selectCorrectAnswer ==
    \E i \in 1..Len(questions) :
       /\ questions[i].answerType = "multiple_choice"
       /\ \E oi \in 1..Len(getOptionsList(questions[i].options)) :
             updateQuestionAt(i, "correctAnswer",
                              getOptionsList(questions[i].options)[oi])

\* ----------------------------------------------------------------- options
\* The option controls are rendered for multiple-choice questions only.
addOptionAt(qi) ==
    /\ mounted
    /\ questions[qi].answerType = "multiple_choice"
    /\ Len(getOptionsList(questions[qi].options)) < MaxOptions
    /\ questions' = addOptionList(questions, qi)
    /\ afterQuestionsChange(questions')
    /\ UNCHANGED << mailVars, twin, cloud, previewVars, upload, sinkIsAsync, sinkMayFail, mounted, now, isInitialLoad,
                    loadTimers, formVars, hasQuestions, lastImageChange >>

addOption == \E qi \in 1..Len(questions) : addOptionAt(qi)

removeOptionAt(qi, oi) ==
    /\ mounted
    /\ questions[qi].answerType = "multiple_choice"
    /\ oi \in 1..Len(getOptionsList(questions[qi].options))
    /\ questions' = LastCall(removeOptionCalls(questions, qi, oi))
    /\ afterQuestionsChange(questions')
    /\ UNCHANGED << mailVars, twin, cloud, previewVars, upload, sinkIsAsync, sinkMayFail, mounted, now, isInitialLoad,
                    loadTimers, formVars, hasQuestions, lastImageChange >>

removeOption ==
    \E qi \in 1..Len(questions) :
       \E oi \in 1..Len(getOptionsList(questions[qi].options)) :
          removeOptionAt(qi, oi)

updateOptionTextAt(qi, oi, text) ==
    /\ mounted
    /\ questions[qi].answerType = "multiple_choice"
    /\ oi \in 1..Len(getOptionsList(questions[qi].options))
    /\ text # getOptionsList(questions[qi].options)[oi]
    /\ questions' = LastCall(updateOptionTextCalls(questions, qi, oi, text))
    /\ afterQuestionsChange(questions')
    /\ UNCHANGED << mailVars, twin, cloud, previewVars, upload, sinkIsAsync, sinkMayFail, mounted, now, isInitialLoad,
                    loadTimers, formVars, hasQuestions, lastImageChange >>

updateOptionText ==
    \E qi \in 1..Len(questions), text \in OptionTexts :
       \E oi \in 1..Len(getOptionsList(questions[qi].options)) :
          updateOptionTextAt(qi, oi, text)

\* ---------------------------------------------------------- initial values
\* Initial-values effect that restarts the initial load when it re-runs.
initialValuesChange_reload ==
    \E qs \in { << >>, << NewQuestion >> } :
       /\ mounted
       /\ Cardinality(loadTimers) < MaxLoadTimers
       /\ loadTimers' = loadTimers \cup {now + INITIAL_LOAD_MS}
       /\ isInitialLoad' = TRUE
       /\ IF Len(qs) > 0
          THEN /\ questions' = qs
               /\ hasQuestions' = TRUE
          ELSE UNCHANGED listVars
       /\ Install(Ctl)
       /\ UNCHANGED << mailVars, twin, cloud, previewVars, upload, sinkIsAsync, sinkMayFail, mounted, now, formVars,
                       lastImageChange >>

\* The parent passes a new initialValues.questions: the effect declared at
\* the top re-runs, replaces the list if the new one is non-empty and arms
\* another setIsInitialLoad(false) timeout; the render that follows
\* setQuestions re-runs the questions effect and the image effect.
initialValuesChange ==
    \E qs \in { << >>, << NewQuestion >> } :
       /\ mounted
       /\ Cardinality(loadTimers) < MaxLoadTimers
       /\ loadTimers' = loadTimers \cup {now + INITIAL_LOAD_MS}
       /\ IF Len(qs) > 0
          THEN /\ questions' = qs
               /\ hasQuestions' = TRUE
               /\ Install(imageEffect(
                              questionsEffect(Ctl, isInitialLoad, FormValues, qs),
                              isInitialLoad, lastImageChange, FormValues, qs))
          ELSE /\ UNCHANGED listVars
               /\ Install(Ctl)
       /\ UNCHANGED << mailVars, twin, cloud, previewVars, upload, sinkIsAsync, sinkMayFail, mounted, now, isInitialLoad,
                       formVars, lastImageChange >>

\* ------------------------------------------------------------ flush, sink
\* flushSave() called from the current render.
Flush ==
    \E o \in SinkOutcomes :
       /\ mounted
       /\ inFlight < MaxInFlight
       /\ Install(flushSave([Ctl EXCEPT !.sinkOutcome = o],
                            isInitialLoad, FormValues, questions, "flush"))
       /\ UNCHANGED << mailVars, twin, cloud, previewVars, upload, sinkIsAsync, sinkMayFail, mounted, now, isInitialLoad,
                       loadTimers, formVars, listVars, lastImageChange >>

\* The component is unmounted: React runs the effect cleanups, of which the
\* only one is the watch subscription's unsubscribe.  The refs and the
\* host's timeouts are left as they are.
Unmount ==
    /\ mounted
    /\ mounted' = FALSE
    /\ Install(Ctl)
    /\ UNCHANGED << mailVars, twin, cloud, previewVars, upload, sinkIsAsync, sinkMayFail, now, isInitialLoad, loadTimers,
                    formVars, listVars, lastImageChange >>

\* An outstanding onSave call completes (successfully or not).
SinkResolve ==
    /\ inFlight > 0
    /\ Install([Ctl EXCEPT !.inFlight = inFlight - 1])
    /\ UNCHANGED << mailVars, twin, cloud, previewVars, upload, sinkIsAsync, sinkMayFail, mounted, now, isInitialLoad, loadTimers, formVars, listVars,
                    lastImageChange >>

\* The sink completes before onSave returns.
Init == InitForm /\ sinkIsAsync = FALSE /\ sinkMayFail = FALSE

\* The sink completes some time after onSave returned.
InitAsync == InitForm /\ sinkIsAsync = TRUE /\ sinkMayFail = FALSE

\* The sink may throw or reject.
InitFail == InitForm /\ sinkIsAsync = FALSE /\ sinkMayFail = TRUE

Next ==
    \/ Advance
    \/ LoadTimerFire
    \/ TimerFire
    \/ SetTitle
    \/ SetContent
    \/ SetImageUrl
    \/ clearImage
    \/ addQuestion
    \/ removeQuestion
    \/ updateQuestion

\* The component as it runs, with its text fields, the image URL input, the
\* clear button and the question list: flushSave is reached through the
\* timeouts only.  File uploads are followed in SpecUpload and SpecUnmount.
Spec == Init /\ [][Next]_vars

\* The component on a host that lets time pass and runs every timeout it
\* holds.
SpecLive ==
    /\ Init
    /\ [][Next]_vars
    /\ WF_vars(Advance)
    /\ WF_vars(LoadTimerFire)
    /\ WF_vars(TimerFire)

\* The component with its text fields, the image URL input, the clear
\* button and the button that adds a question.
NextEdit ==
    \/ Advance
    \/ LoadTimerFire
    \/ TimerFire
    \/ SetTitle
    \/ SetContent
    \/ SetImageUrl
    \/ clearImage
    \/ addQuestion

SpecEdit == Init /\ [][NextEdit]_vars

\* The component with its text fields and its image controls, file upload
\* included.  Without a cloud name the preview effect creates no test image
\* and the preview never shows a transformed URL, so testImgLoad,
\* testImgError and imgError have nothing to act on.
NextUpload ==
    \/ Advance
    \/ LoadTimerFire
    \/ TimerFire
    \/ SetTitle
    \/ SetContent
    \/ SetImageUrl
    \/ clearImage
    \/ handleImageUpload
    \/ uploadResolved
    \/ uploadRejected

SpecUpload == Init /\ [][NextUpload]_vars

\* A question saved with its text.
SavedQuestion ==
    [questionText |-> <<"q">>, answerType |-> "text",
     correctAnswer |-> << >>, options |-> << >>]

\* Question lists a saved page is hydrated with.
SavedLists ==
    { [i \in 1..n |-> IF i = 2 THEN SavedQuestion ELSE NewQuestion] :
         n \in 0..MaxSavedQuestions }

InitList ==
    /\ InitHydrated(SavedLists)
    /\ sinkIsAsync = FALSE
    /\ sinkMayFail = FALSE

\* The question list of the component: hydration, the three list handlers
\* and a parent that may replace initialValues.questions, with the saves
\* they queue.  No other handler writes questions or hasQuestions; the text
\* fields and the image are left as hydrated.
NextList ==
    \/ Advance
    \/ LoadTimerFire
    \/ TimerFire
    \/ addQuestion
    \/ removeQuestion
    \/ updateQuestion
    \/ initialValuesChange

SpecList == InitList /\ [][NextList]_vars

\* The component with flushSave also callable as the controller's flush().
NextFlush ==
    \/ Advance
    \/ LoadTimerFire
    \/ TimerFire
    \/ SetTitle
    \/ SetContent
    \/ Flush

SpecFlush == Init /\ [][NextFlush]_vars

NextAsync ==
    \/ Advance
    \/ LoadTimerFire
    \/ TimerFire
    \/ SetTitle
    \/ SetContent
    \/ SinkResolve

SpecAsync == InitAsync /\ [][NextAsync]_vars

\* The question editor of a saved page with one question.
InitQuestions ==
    /\ InitHydrated(SavedQuestions)
    /\ content = <<"x">>
    /\ sinkIsAsync = FALSE
    /\ sinkMayFail = FALSE

NextQuestions ==
    \/ setAnswerType
    \/ selectCorrectAnswer
    \/ addOption
    \/ removeOption
    \/ updateOptionText

SpecQuestions == InitQuestions /\ [][NextQuestions]_vars

\* The mount effect and its timeouts under a parent that replaces
\* initialValues.questions, with the saves the end of the initial load
\* queues.  No other handler reads or writes the timeouts of the initial
\* load or writes isInitialLoad.
NextRehydrate ==
    \/ Advance
    \/ LoadTimerFire
    \/ TimerFire
    \/ initialValuesChange

\* The host lets time pass and runs every timeout it holds.
SpecRehydrate ==
    /\ Init
    /\ [][NextRehydrate]_vars
    /\ WF_vars(Advance)
    /\ WF_vars(LoadTimerFire)
    /\ WF_vars(TimerFire)

\* The question editor of a page whose one question was just added.
InitNewQuestion ==
    /\ InitHydrated({ << NewQuestion >> })
    /\ content = <<"x">>
    /\ sinkIsAsync = FALSE
    /\ sinkMayFail = FALSE

SpecNewQuestion == InitNewQuestion /\ [][NextQuestions]_vars

\* The component with a sink that may fail, flushSave callable.
NextFail ==
    \/ Advance
    \/ LoadTimerFire
    \/ TimerFire
    \/ SetTitle
    \/ SetContent
    \/ Flush

SpecFail == InitFail /\ [][NextFail]_vars

\* A build with or without a Cloudinary cloud name.
InitCloud ==
    /\ InitPage({ << >>, << NewQuestion >> })
    /\ cloud \in CloudNames
    /\ twin = Null
    /\ mailEnv = Null
    /\ mail = Null
    /\ sinkIsAsync = FALSE
    /\ sinkMayFail = FALSE

\* The component over its whole life, unmount included, with its content
\* field and its image controls.  Test images of the preview are created
\* only where a cloud name is configured.
NextUnmount ==
    \/ Advance
    \/ LoadTimerFire
    \/ TimerFire
    \/ SetContent
    \/ SetImageUrl
    \/ clearImage
    \/ Unmount
    \/ handleImageUpload
    \/ uploadResolved
    \/ uploadRejected
    \/ testImgLoad
    \/ testImgError
    \/ imgError

SpecUnmount == InitCloud /\ [][NextUnmount]_vars

\* Payloads queueSave can have cached.
CachedPayloads ==
    { buildPayload(n, [title |-> t, content |-> <<"x">>, imageUrl |-> "",
                       imagePublicId |-> ""], qs) :
         n \in BOOLEAN, t \in {""} \cup TitleValues,
         qs \in { << >>, << NewQuestion >> } }

\* flushSave as a function of what it reads: isInitialLoad, the timeout
\* slot, the cache, the form values and the question list.  queueSave
\* neither caches nor arms during the initial load, and arms only when it
\* caches; the component itself never calls flushSave with an empty cache,
\* since its only callers are the timeouts that queueSave arms.
InitFlushTable ==
    /\ now = INITIAL_LOAD_MS
    /\ isInitialLoad \in BOOLEAN
    /\ loadTimers = IF isInitialLoad THEN {INITIAL_LOAD_MS} ELSE {}
    /\ title \in {""} \cup TitleValues
    /\ content \in { << >> } \cup ContentValues
    /\ imageUrl = ""
    /\ imagePublicId = ""
    /\ questions \in { << >>, << NewQuestion >> }
    /\ hasQuestions = (Len(questions) > 0)
    /\ lastImageChange = 0
    /\ upload = Null
    /\ cloud = ""
    /\ imagePreview = Null
    /\ previewSrc = Null
    /\ previewTriedTransformed = FALSE
    /\ testImgs = << >>
    /\ latestPayloadRef \in IF isInitialLoad THEN {Null}
                            ELSE {Null} \cup CachedPayloads
    /\ \E armed \in BOOLEAN :
          LET tm == [due |-> now + INACTIVITY_MS, kind |-> "check"]
          IN  /\ armed => latestPayloadRef # Null
              /\ liveTimers = IF armed THEN {tm} ELSE {}
              /\ saveTimerRef = IF armed THEN Some(tm) ELSE Null
              /\ hasUnsavedChanges = armed
              /\ burst = IF armed THEN "pending"
                         ELSE IF latestPayloadRef # Null THEN "committed"
                         ELSE "none"
    /\ lastEditRef = DateNow
    /\ notifySnap = latestPayloadRef
    /\ notifyAt = IF latestPayloadRef # Null THEN now ELSE 0
    /\ burstLen = IF latestPayloadRef # Null THEN 1 ELSE 0
    /\ burstStart = notifyAt
    /\ timerCommits = 0
    /\ lastSaved = Null
    /\ lastSavedBy = "none"
    /\ lastOutcome = "none"
    /\ failed = FALSE
    /\ mounted = TRUE
    /\ inFlight = 0
    /\ sinkIsAsync = FALSE
    /\ sinkMayFail = FALSE
    /\ mailEnv = Null
    /\ mail = Null
    /\ twin = Null

NextFlushTable == Flush

SpecFlushTable == InitFlushTable /\ [][NextFlushTable]_vars

\* Two runs of the controller that receive the same queueSave calls at the
\* same times with the same form values, each call with an urgency tag of
\* its own in either run.
InitTwin ==
    /\ InitPage({ << >>, << NewQuestion >> })
    /\ cloud = ""
    /\ mailEnv = Null
    /\ mail = Null
    /\ sinkIsAsync = FALSE
    /\ sinkMayFail = FALSE
    /\ twin = Some(Ctl)

\* The second controller at the start of a step.
TwinCtl ==
    [twin[1] EXCEPT !.lastSaved = Null, !.lastSavedBy = "none",
                    !.lastOutcome = "none", !.sinkOutcome = "ok"]

\* Urgency tags of one call: in the first run, in the second run.
TwinTags == BOOLEAN \X BOOLEAN

\* Time passes for both runs; no timeout of either is passed.
TwinAdvance ==
    /\ \E t \in AdvanceTargets :
          /\ t > now
          /\ t <= Horizon
          /\ \A due \in AllDues : t <= due
          /\ \A tm \in twin[1].liveTimers : t <= tm.due
          /\ now' = t
    /\ Install(Ctl)
    /\ twin' = Some(TwinCtl)
    /\ UNCHANGED << mailVars, cloud, previewVars, upload, sinkIsAsync,
                    sinkMayFail, mounted, isInitialLoad, loadTimers, formVars,
                    listVars, lastImageChange >>

\* The initial load ends in both runs; the effect that runs then calls
\* queueSave.
TwinLoadTimerFire ==
    \E due \in loadTimers, tags \in TwinTags :
       /\ now >= due
       /\ loadTimers' = loadTimers \ {due}
       /\ isInitialLoad' = FALSE
       /\ Install(IF isInitialLoad
                  THEN queueSave(Ctl, tags[1], FALSE, FormValues, questions)
                  ELSE Ctl)
       /\ twin' = Some(IF isInitialLoad
                       THEN queueSave(TwinCtl, tags[2], FALSE, FormValues,
                                      questions)
                       ELSE TwinCtl)
       /\ UNCHANGED << mailVars, cloud, previewVars, upload, sinkIsAsync,
                       sinkMayFail, mounted, now, formVars, listVars,
                       lastImageChange >>

\* One queueSave call in both runs, after a change of a text field or
\* without one.
TwinNotify ==
    \E t \in {title} \cup TitleValues, c \in {content} \cup ContentValues,
       tags \in TwinTags :
       /\ t = title \/ c = content
       /\ title' = t
       /\ content' = c
       /\ LET v == [FormValues EXCEPT !.title = t, !.content = c]
          IN  /\ Install(queueSave(Ctl, tags[1], isInitialLoad, v, questions))
              /\ twin' = Some(queueSave(TwinCtl, tags[2], isInitialLoad, v,
                                        questions))
       /\ UNCHANGED << mailVars, cloud, previewVars, upload, sinkIsAsync,
                       sinkMayFail, mounted, now, isInitialLoad, loadTimers,
                       imageUrl, imagePublicId, listVars, lastImageChange >>

\* A timeout that both runs hold expires in both.
TwinTimerFire ==
    \E tm \in liveTimers \cap twin[1].liveTimers :
       /\ now + EarlyFireMs >= tm.due
       /\ inFlight < MaxInFlight
       /\ Install(timerCallback([Ctl EXCEPT !.liveTimers = liveTimers \ {tm}],
                                tm, FormValues, questions))
       /\ twin' = Some(timerCallback(
                          [TwinCtl EXCEPT !.liveTimers = @ \ {tm}],
                          tm, FormValues, questions))
       /\ UNCHANGED << mailVars, cloud, previewVars, upload, sinkIsAsync,
                       sinkMayFail, mounted, now, isInitialLoad, loadTimers,
                       formVars, listVars, lastImageChange >>

NextTwin ==
    \/ TwinAdvance
    \/ TwinLoadTimerFire
    \/ TwinNotify
    \/ TwinTimerFire

SpecTwin == InitTwin /\ [][NextTwin]_vars


\* The mail service of a server process, whose environment is any of
\* MailEnvs; the page state is left as constructed.
InitMail ==
    /\ InitPage({ << >> })
    /\ cloud = ""
    /\ twin = Null
    /\ content = << >>
    /\ sinkIsAsync = FALSE
    /\ sinkMayFail = FALSE
    /\ mailEnv \in MailEnvs
    /\ mail = MailLoaded(mailEnv)

NextMail ==
    \/ sendMail
    \/ apiReply
    \/ smtpReply
    \/ smtpFallbackReply

SpecMail == InitMail /\ [][NextMail]_vars

\* Every request settles: httpsJson has a request timeout, the transports
\* have connection, greeting and socket timeouts.
SpecMailLive ==
    /\ InitMail
    /\ [][NextMail]_vars
    /\ WF_vars(apiReply)
    /\ WF_vars(smtpReply)
    /\ WF_vars(smtpFallbackReply)


\* ================================================================ claims
\* A step that is a mutation of the editable state.
MutatorStep ==
    \/ formVars' # formVars
    \/ questions' # questions
    \/ lastImageChange' # lastImageChange

\* C1 (debounce coalescing): a burst is a run of qualifying queueSave calls
\* each less than INACTIVITY_MS after the one before.  No burst gets more
\* than one timer-driven onSave call, counted from the first call of the
\* burst on; while the burst is pending the one timeout in the slot is live
\* and due no later than idle window plus guard band after the last call;
\* and the timer-driven call comes no earlier than INACTIVITY_MS after the
\* last call of the burst, with the payload built at that call.
C1_Coalescing ==
    /\ timerCommits <= 1
    /\ (burst = "pending" =>
           /\ saveTimerRef # Null
           /\ saveTimerRef[1] \in liveTimers
           /\ saveTimerRef[1].due <= notifyAt + INACTIVITY_MS + GUARD_MS)
    /\ (lastSavedBy = "timer" =>
           /\ lastSaved = notifySnap
           /\ now >= notifyAt + INACTIVITY_MS)

\* The title was set to "A" and, later in the same burst, to "AB"; the
\* burst has just been committed once, with the title "AB".
C1_Witness ==
    /\ lastSavedBy = "timer"
    /\ timerCommits = 1
    /\ burstLen >= 2
    /\ notifyAt > burstStart
    /\ lastSaved[1].title = "AB"
    /\ ~lastSaved[1].showNotification

\* C2 (idle threshold): a timer-driven onSave call never happens earlier than
\* INACTIVITY_MS after the most recent qualifying queueSave, and it receives
\* the payload built at that queueSave.
C2_IdleThreshold ==
    lastSavedBy = "timer" =>
        /\ now - notifyAt >= INACTIVITY_MS
        /\ lastSaved = notifySnap

\* Two edits TickMs apart, committed INACTIVITY_MS after the second.
C2_Witness ==
    /\ lastSavedBy = "timer"
    /\ burstLen = 2
    /\ notifyAt - burstStart = TickMs
    /\ now - notifyAt = INACTIVITY_MS

\* C3 (latest state at flush time): the payload a timer expiry hands to onSave
\* is what buildPayload returns for the editable state at that moment.
C3_LatestAtFlush ==
    lastSavedBy = "timer" =>
        lastSaved = buildPayload(lastSaved[1].showNotification,
                                 FormValues, questions)

\* C4 (empty content is never committed): every payload handed to onSave has
\* content that is non-blank after trimming.
C4_NoEmptyCommit ==
    lastSaved # Null => Trim(lastSaved[1].content) # << >>

\* onSave was just called while the content field itself is blank.
C4_Witness ==
    /\ lastSaved # Null
    /\ content = <<" ">>

\* C5 (suppression): before INITIAL_LOAD_MS has elapsed no save is scheduled,
\* the unsaved-changes flag is false and onSave has not been called.
C5_Suppression ==
    now < INITIAL_LOAD_MS =>
        /\ ~hasUnsavedChanges
        /\ liveTimers = {}
        /\ saveTimerRef = Null
        /\ lastSaved = Null

\* C6 (empty content guard): outside the initial load, a mutation after which
\* buildPayload returns null arms no timeout and does not turn the
\* unsaved-changes flag from false to true.
C6_EmptyGuard ==
    [][(/\ ~isInitialLoad
        /\ MutatorStep
        /\ buildPayload(TRUE, FormValues', questions') = Null)
       => (/\ liveTimers' \subseteq liveTimers
           /\ (hasUnsavedChanges' => hasUnsavedChanges))]_vars

C8_FlushDecision ==
    [][Flush =>
          /\ liveTimers' = {}
          /\ saveTimerRef' = Null
          /\ (isInitialLoad => lastSaved' = Null)
          /\ (~isInitialLoad =>
                 lastSaved' = IF latestPayloadRef # Null THEN latestPayloadRef
                              ELSE buildPayload(TRUE, FormValues, questions))]_vars

\* flushSave found the cache empty and committed a freshly built payload.
C8_Witness ==
    /\ lastSavedBy = "flush"
    /\ lastSaved # Null
    /\ latestPayloadRef = Null
    /\ lastSaved = buildPayload(TRUE, FormValues, questions)

\* C9 (flush without save-worthy content): whenever buildPayload returns null
\* for the current state, a flushSave does not call onSave.
C9_BlankFlushNoOp ==
    lastSaved # Null => buildPayload(TRUE, FormValues, questions) # Null

\* C10 (single-flight): at most one onSave call is outstanding at any time.
C10_SingleFlight ==
    inFlight <= 1

\* C11 (teardown cancels the pending timer): once the component has been
\* unmounted no autosave timeout is live and onSave is not called.
C11_TeardownCancels ==
    ~mounted =>
        /\ liveTimers = {}
        /\ lastSaved = Null

\* C12 (optimistic clear on commit failure): a step in which the sink threw
\* or rejected ends with the cached payload cleared and the unsaved-changes
\* flag false.
C12_OptimisticClear ==
    lastOutcome \in {"throws", "rejects"} =>
        /\ latestPayloadRef = Null
        /\ ~hasUnsavedChanges

\* C13 (no automatic retry): after a failed onSave call no autosave timeout
\* is live, and as long as no save has been queued since, onSave is called
\* again by an explicit flushSave only.
C13_NoRetry ==
    [][/\ (failed' => (liveTimers' = {} /\ saveTimerRef' = Null))
       /\ ((failed /\ lastSaved' # Null) => lastSavedBy' = "flush")]_vars

\* A timer-driven call failed and more than an idle window plus guard band
\* has passed since without a further call.
C13_Witness ==
    /\ failed
    /\ burst = "committed"
    /\ timerCommits = 1
    /\ lastSaved = Null
    /\ liveTimers = {}
    /\ now - notifyAt > 2 * INACTIVITY_MS - INITIAL_LOAD_MS

\* C14 (removing the correct option clears the answer): when removeOption
\* removes the option that equals the question's correctAnswer, the question's
\* correctAnswer is empty afterwards.
C14_RemoveCorrectOption ==
    [][\A qi \in 1..Len(questions) :
          \A oi \in 1..Len(getOptionsList(questions[qi].options)) :
             (/\ removeOptionAt(qi, oi)
              /\ questions[qi].correctAnswer
                    = getOptionsList(questions[qi].options)[oi])
             => questions'[qi].correctAnswer = << >>]_vars

\* C15 (default option synthesis): when a question's answer type is set to
\* multiple_choice, its options become Option 1, Option 2, Option 3 if its
\* parsed option list was empty and stay as they were otherwise; its
\* correctAnswer stays as it was.
C15_DefaultOptions ==
    [][\A i \in 1..Len(questions) :
          updateQuestionAt(i, "answerType", "multiple_choice") =>
             /\ questions'[i].correctAnswer = questions[i].correctAnswer
             /\ IF Len(getOptionsList(questions[i].options)) = 0
                THEN getOptionsList(questions'[i].options)
                        = << <<"Option 1">>, <<"Option 2">>, <<"Option 3">> >>
                ELSE questions'[i].options = questions[i].options]_vars

\* A question with an answer but no usable options has been switched to
\* multiple choice.
C15_Witness ==
    /\ Len(questions) = 1
    /\ questions[1].answerType = "multiple_choice"
    /\ questions[1].options = DefaultOptions
    /\ questions[1].correctAnswer = <<"a">>

\* C16 (getOptionsList parsing): the parsed list of every question's option
\* string is the string split on newline if it contains one and on comma
\* otherwise, every piece trimmed and the empty pieces dropped.
C16_OptionsParsing ==
    \A i \in 1..Len(questions) :
       LET raw == questions[i].options
           sep == IF Includes(raw, NL) THEN NL ELSE ","
       IN  getOptionsList(raw) = FilterNonEmpty(MapTrim(Split(raw, sep)))

\* C17 (edits during suppression are not remembered): the end of the initial
\* load, reached with the unsaved-changes flag false, arms no timeout and
\* leaves the flag false; with no timeout armed and no later mutation, onSave
\* cannot be called afterwards.
C17_SuppressedToIdle ==
    [][(isInitialLoad /\ ~isInitialLoad' /\ ~hasUnsavedChanges)
       => (/\ liveTimers' = {}
           /\ saveTimerRef' = Null
           /\ ~hasUnsavedChanges')]_vars

\* C18 (pending save cleared when the content stops being save-worthy): a
\* mutation made while a save is pending, after which buildPayload returns
\* null, leaves no cached payload and no live timeout.
C18_PendingCleared ==
    [][(/\ ~isInitialLoad
        /\ MutatorStep
        /\ latestPayloadRef # Null
        /\ liveTimers # {}
        /\ buildPayload(TRUE, FormValues', questions') = Null)
       => (/\ latestPayloadRef' = Null
           /\ liveTimers' = {})]_vars

\* C19 (no timer reset on refresh): a mutation that queues a save while the
\* timeout in the slot is live leaves that timeout in place, with the same
\* due time.
C19_NoTimerReset ==
    [][(/\ ~isInitialLoad
        /\ MutatorStep
        /\ saveTimerRef # Null
        /\ saveTimerRef[1] \in liveTimers
        /\ buildPayload(TRUE, FormValues', questions') # Null)
       => (/\ liveTimers' = liveTimers
           /\ saveTimerRef' = saveTimerRef)]_vars

\* C20 (state after a commit): a step that called onSave ends with the cache
\* cleared, the unsaved-changes flag false and no timeout live.
C20_StateAfterCommit ==
    lastSaved # Null =>
        /\ latestPayloadRef = Null
        /\ ~hasUnsavedChanges
        /\ liveTimers = {}
        /\ saveTimerRef = Null

\* C21 (expiry re-check): a timeout that expires less than INACTIVITY_MS
\* after the last queued edit calls onSave zero times and leaves exactly one
\* timeout live, in the slot, due after the rest of the idle window plus a
\* positive guard band; one that expires later commits the cached payload.
C21_ExpiryRecheck ==
    [][TimerFire =>
          LET idleFor == DateNow - lastEditRef
          IN  IF idleFor < INACTIVITY_MS
              THEN /\ lastSaved' = Null
                   /\ Cardinality(liveTimers') = 1
                   /\ saveTimerRef' # Null
                   /\ saveTimerRef'[1] \in liveTimers'
                   /\ saveTimerRef'[1].due > now + INACTIVITY_MS - idleFor
                   /\ saveTimerRef'[1].due
                         = now + INACTIVITY_MS - idleFor + GUARD_MS
              ELSE /\ lastSaved' # Null
                   /\ lastSaved' = latestPayloadRef
                   /\ lastSavedBy' = "timer"]_vars

\* A timeout expired early and armed the follow-up timeout, which is pending.
C21_Witness ==
    /\ burst = "pending"
    /\ saveTimerRef # Null
    /\ saveTimerRef[1].kind = "flush"
    /\ saveTimerRef[1] \in liveTimers
    /\ saveTimerRef[1].due = notifyAt + INACTIVITY_MS + GUARD_MS

\* The last queued save can still expire within the time a run is followed.
InTime == notifyAt + INACTIVITY_MS + GUARD_MS <= MaxTime

\* C22 (no lost last edit): a save queued after the initial load leads to an
\* onSave call with the payload built at the last queueSave, after which
\* the pending state (cache, flag, timeout) is cleared.
C22_NoLostEdit ==
    (burst = "pending" /\ InTime)
       ~> (\/ /\ lastSaved # Null
              /\ lastSaved = notifySnap
              /\ latestPayloadRef = Null
              /\ ~hasUnsavedChanges
              /\ liveTimers = {}
           \/ (burst = "pending" /\ ~InTime))

\* C23 (meaning of the unsaved-changes flag): the flag is true only while a
\* save is pending, that is a payload is cached and the timeout in the slot
\* is live.
C23_FlagMeansPending ==
    hasUnsavedChanges =>
        /\ latestPayloadRef # Null
        /\ saveTimerRef # Null
        /\ saveTimerRef[1] \in liveTimers

\* C24 (single timer slot): at most one autosave timeout is live, and it is
\* the one whose handle the slot holds.
C24_SingleTimerSlot ==
    /\ Cardinality(liveTimers) <= 1
    /\ \A tm \in liveTimers : saveTimerRef = Some(tm)

\* A second queueSave, later than the first, has replaced the timeout.
C24_Witness ==
    /\ burst = "pending"
    /\ burstLen >= 2
    /\ notifyAt > burstStart
    /\ liveTimers = {[due |-> notifyAt + INACTIVITY_MS, kind |-> "check"]}

\* C25 (suppression lifecycle): the component starts in the initial load
\* and stays in it until INITIAL_LOAD_MS have elapsed from construction;
\* while it lasts, the timeout armed at construction is pending; every
\* expiry of such a timeout ends it; it is never entered again, also when
\* initialValues.questions changes later; and on a host that runs its
\* timeouts it does end.
C25_SuppressionLifecycle ==
    /\ [](now < INITIAL_LOAD_MS => isInitialLoad)
    /\ [](isInitialLoad => INITIAL_LOAD_MS \in loadTimers)
    /\ [][/\ (LoadTimerFire => ~isInitialLoad')
          /\ (~isInitialLoad => ~isInitialLoad')]_vars
    /\ <>[](~isInitialLoad)

\* The initial values changed after the initial load was over; the timeout
\* armed by that change is pending and the initial load has not restarted.
C25_Witness ==
    /\ ~isInitialLoad
    /\ loadTimers # {}
    /\ now >= INITIAL_LOAD_MS + TickMs

\* What of a controller decides when timeouts are armed and expire and
\* when onSave is called.
Timing(c) ==
    << c.liveTimers, c.saveTimerRef, c.lastEditRef, c.hasUnsavedChanges,
       c.lastSaved # Null, c.lastSavedBy >>

\* The first controller after a step.
CtlNow ==
    [Ctl EXCEPT !.lastSaved = lastSaved, !.lastSavedBy = lastSavedBy,
                !.lastOutcome = lastOutcome]

\* C26 (urgency does not affect timing): two runs that receive the same
\* queueSave calls at the same times with the same form values, but with
\* urgency tags of their own, hold the same timeouts, the same edit time
\* and the same flag after every step, and call onSave in the same steps.
C26_UrgencyTimingNeutral ==
    Timing(CtlNow) = Timing(twin[1])

\* Both runs have just committed, one idle window after the last call, a
\* payload that is urgent in one run and not in the other.
C26_Witness ==
    /\ lastSavedBy = "timer"
    /\ lastSaved # Null
    /\ lastSaved[1].showNotification
    /\ twin[1].lastSaved # Null
    /\ ~twin[1].lastSaved[1].showNotification
    /\ now - notifyAt = INACTIVITY_MS

\* A step that changes the image reference.
ImageChange ==
    \/ imageUrl' # imageUrl
    \/ imagePublicId' # imagePublicId
    \/ lastImageChange' # lastImageChange

\* C27 (showNotification of a committed payload): every payload handed to
\* onSave carries the urgency of the last qualifying queueSave, which is
\* false after a change of a text field (title, content) and true after a
\* change of the question list or of the image; a flushSave that finds
\* nothing cached commits, if anything, a payload with showNotification
\* true.
C27_ShowNotification ==
    /\ [][/\ (lastSaved' # Null =>
                 /\ notifySnap' # Null
                 /\ lastSaved'[1].showNotification
                       = notifySnap'[1].showNotification)
          /\ (((title' # title \/ content' # content) /\ ~isInitialLoad
                /\ buildPayload(TRUE, FormValues', questions') # Null)
               => ~notifySnap'[1].showNotification)
          /\ (((questions' # questions \/ ImageChange) /\ ~isInitialLoad
                /\ buildPayload(TRUE, FormValues', questions') # Null)
               => notifySnap'[1].showNotification)]_vars
    /\ [](LET r == flushSave([Ctl EXCEPT !.latestPayloadRef = Null], FALSE,
                             FormValues, questions, "flush")
          IN  r.lastSaved # Null => r.lastSaved[1].showNotification)

\* C28 (renaming the correct option rewrites the answer): when
\* updateOptionText changes the option that equals the question's
\* correctAnswer, the correctAnswer is the new text afterwards.
C28_RenameCorrectOption ==
    [][\A qi \in 1..Len(questions), text \in OptionTexts :
          \A oi \in 1..Len(getOptionsList(questions[qi].options)) :
             (/\ updateOptionTextAt(qi, oi, text)
              /\ questions[qi].correctAnswer
                    = getOptionsList(questions[qi].options)[oi])
             => questions'[qi].correctAnswer = text]_vars

\* C29 (the correct answer names an existing option): the correctAnswer of a
\* multiple-choice question is empty or one of its parsed options.
C29_AnswerIsAnOption ==
    \A i \in 1..Len(questions) :
       questions[i].answerType = "multiple_choice" =>
          \/ questions[i].correctAnswer = << >>
          \/ \E k \in 1..Len(getOptionsList(questions[i].options)) :
                getOptionsList(questions[i].options)[k]
                   = questions[i].correctAnswer

\* C30 (no multiple-choice question without options): a multiple-choice
\* question has a non-empty parsed option list.
C30_ChoiceHasOptions ==
    \A i \in 1..Len(questions) :
       questions[i].answerType = "multiple_choice" =>
          Len(getOptionsList(questions[i].options)) > 0

\* A list of option texts none of which is empty or has blanks at its ends.
TrimmedOptions(L) ==
    \A k \in 1..Len(L) : L[k] # << >> /\ Trim(L[k]) = L[k]

\* C31 (option list round trip): getOptionsList of a list of non-empty
\* trimmed options joined with newlines is that list, so that removeOption
\* leaves the parsed list without the removed entry, updateOptionText changes
\* the one entry and addOption appends one entry, the other entries keeping
\* their order and text.
C31_OptionRoundTrip ==
    [][\A qi \in 1..Len(questions) :
          LET L == getOptionsList(questions[qi].options)
          IN  TrimmedOptions(L) =>
                /\ \A oi \in 1..Len(L) :
                      removeOptionAt(qi, oi) =>
                         getOptionsList(questions'[qi].options) = RemoveAt(L, oi)
                /\ \A oi \in 1..Len(L), text \in OptionTexts :
                      (updateOptionTextAt(qi, oi, text) /\ TrimmedOptions(<< text >>))
                      => getOptionsList(questions'[qi].options)
                            = [L EXCEPT ![oi] = text]
                /\ addOptionAt(qi) =>
                      getOptionsList(questions'[qi].options)
                         = Append(L, OptionName(Len(L) + 1))]_vars

\* C32 (derived hasQuestions flag): after construction and after every
\* replacement of the question list (hydration, addQuestion, removeQuestion,
\* updateQuestion) hasQuestions is true if and only if the list is non-empty.
C32_HasQuestionsFlag ==
    hasQuestions <=> Len(questions) > 0

\* The first of the two questions of a saved page was removed after the
\* initial load: the list is not empty, the flag is still set, and the
\* save queued by the removal carries the question that is left.
C32_Witness ==
    /\ questions = << SavedQuestion >>
    /\ hasQuestions
    /\ latestPayloadRef # Null
    /\ latestPayloadRef[1].questions = Some(questions)

\* C33 (email provider priority): the first delivery attempt of a sendMail
\* call goes to Resend when RESEND_API_KEY and SENDGRID_API_KEY are both set
\* and EMAIL_PROVIDER is not, and goes to SMTP only when neither API provider
\* is selected by EMAIL_PROVIDER or, EMAIL_PROVIDER not set, by a key.
C33_ProviderPriority ==
    (mail # Null /\ mail.attempts # << >>) =>
       /\ (/\ Truthy(mailEnv.RESEND_API_KEY)
           /\ Truthy(mailEnv.SENDGRID_API_KEY)
           /\ mailEnv.EMAIL_PROVIDER = "")
          => mail.attempts[1].via = "resend"
       /\ mail.attempts[1].via = "smtp" =>
             /\ mailEnv.EMAIL_PROVIDER \notin {"resend", "sendgrid"}
             /\ (mailEnv.EMAIL_PROVIDER = "" =>
                    /\ ~Truthy(mailEnv.RESEND_API_KEY)
                    /\ ~Truthy(mailEnv.SENDGRID_API_KEY))

\* C34 (API-to-SMTP fallback): once the request of the selected API provider
\* has settled, a successful send has made no SMTP attempt; a failure whose
\* message is the Resend test-mode restriction has ended the call with the
\* error EMAIL_DOMAIN_UNVERIFIED and no SMTP attempt; every other failure
\* has entered sendMailWithFallback exactly once.
C34_ApiFallback ==
    (mail # Null /\ mail.apiReply # Null) =>
       LET e == apiError(mail.attempts[1].via, mail.apiReply[1])
       IN  /\ e = Null =>
                 /\ mail.smtpCalls = 0
                 /\ Len(mail.attempts) = 1
                 /\ mail.outcome = "sent"
           /\ (e # Null /\ Includes(e[1], RestrictedText)) =>
                 /\ mail.smtpCalls = 0
                 /\ Len(mail.attempts) = 1
                 /\ mail.outcome = "error"
                 /\ mail.error[1].code = "EMAIL_DOMAIN_UNVERIFIED"
           /\ (e # Null /\ ~Includes(e[1], RestrictedText)) =>
                 mail.smtpCalls = 1

\* The API provider failed and the SMTP transport delivered the message.
C34_Witness ==
    /\ mail # Null
    /\ mail.apiReply # Null
    /\ mail.smtpCalls = 1
    /\ Len(mail.attempts) = 2
    /\ mail.outcome = "sent"

IsSmtp(a) == a.via = "smtp"

\* The SMTP send attempts of the current call.
SmtpAttempts == SelectSeq(mail.attempts, IsSmtp)

\* C35 (bounded SMTP retry): a call makes at most two SMTP send attempts;
\* a second attempt is on port 587 without implicit TLS and follows a first
\* attempt that failed with a timeout or connection error, the host being
\* smtp.gmail.com and the primary port 465; a call that ends after one
\* failed attempt ends with that attempt's error, a call whose second
\* attempt failed ends with the second error; and every call ends with a
\* result or an error.
C35_BoundedSmtpRetry ==
    /\ [](mail # Null =>
            /\ Len(SmtpAttempts) <= 2
            /\ Len(SmtpAttempts) = 2 =>
                  /\ SmtpAttempts[2].port = STARTTLS_PORT
                  /\ ~SmtpAttempts[2].secure
                  /\ mail.smtpReplies[1] # Null
                  /\ (isTimeout(mail.smtpReplies[1][1])
                        \/ isConn(mail.smtpReplies[1][1]))
                  /\ mailEnv.SMTP_HOST = GmailHost
                  /\ mailEnv.PRIMARY_PORT = GMAIL_TLS_PORT
            /\ (/\ mail.pc = "idle"
                /\ Len(mail.smtpReplies) = 1
                /\ mail.smtpReplies[1] # Null) =>
                  /\ Len(SmtpAttempts) = 1
                  /\ mail.outcome = "error"
                  /\ mail.error = mail.smtpReplies[1]
            /\ (Len(mail.smtpReplies) = 2 /\ mail.smtpReplies[2] # Null) =>
                  /\ mail.outcome = "error"
                  /\ mail.error = mail.smtpReplies[2])
    /\ ((mail # Null /\ mail.pc # "idle")
          ~> (mail # Null /\ mail.pc = "idle"
                /\ mail.outcome \in {"sent", "error"}))

\* The first attempt timed out and the attempt on port 587 delivered.
C35_Witness ==
    /\ mail # Null
    /\ Len(SmtpAttempts) = 2
    /\ mail.outcome = "sent"

====
